---- MODULE Spec2Model ----
(***************************************************************************)
(* A model of package sqlstruct (src/sqlstruct.go): the field-info cache   *)
(* behind getFieldInfo, Columns, Scan, NullValue and snakeCasedName.       *)
(*                                                                         *)
(* Strings are sequences of Unicode code points (Go ranges over a string   *)
(* rune by rune); comparing them code point by code point is the byte-wise *)
(* order of their UTF-8 encodings, which is the order sort.Strings uses.   *)
(***************************************************************************)
EXTENDS Integers, Sequences, FiniteSets, TLC

\* ------------------------------------------------------------------ bounds
MaxNameLen == 3
MaxInt == 2
MaxStrLen == 2
MaxFields == 2
NumProcs == 2
MaxCols == 2

\* ----------------------------------------------------------------- strings
\* "A" "B" "_" "a" "b" and the non-ASCII letters "É" (U+00C9) and "é" (U+00E9).
NameAlphabet == {65, 66, 95, 97, 98, 201, 233}

RECURSIVE SeqsUpTo(_, _)
SeqsUpTo(S, n) ==
  IF n = 0 THEN {<<>>}
  ELSE LET shorter == SeqsUpTo(S, n - 1)
       IN  shorter \cup {Append(s, c) : s \in {t \in shorter : Len(t) = n - 1}, c \in S}

\* 'A' <= chr && chr <= 'Z'
IsAsciiUpper(chr) == 65 <= chr /\ chr <= 90

\* unicode.IsUpper on the letters of the alphabets used here: ASCII A-Z and
\* the Latin-1 capitals U+00C0..U+00DE (U+00D7 is the multiplication sign).
IsUpper(chr) == IsAsciiUpper(chr) \/ (192 <= chr /\ chr <= 222 /\ chr # 215)

\* unicode.ToLower, as strings.ToLower applies it to each rune.
ToLowerRune(chr) == IF IsUpper(chr) THEN chr + 32 ELSE chr

ToLower(s) == [i \in 1..Len(s) |-> ToLowerRune(s[i])]

\* The loop of snakeCasedName from rune i on: newstr is the output so far,
\* firstTime the flag that suppresses the underscore once.
RECURSIVE snakeLoop(_, _, _, _)
snakeLoop(name, i, newstr, firstTime) ==
  IF i > Len(name) THEN newstr
  ELSE LET chr == name[i]
       IN  IF IsAsciiUpper(chr)
           THEN snakeLoop(name, i + 1,
                          (IF firstTime THEN newstr ELSE Append(newstr, 95))
                             \o <<chr + 32>>,
                          FALSE)
           ELSE snakeLoop(name, i + 1, Append(newstr, chr), firstTime)

snakeCasedName(name) == snakeLoop(name, 1, <<>>, TRUE)

\* A field is exported (its PkgPath is empty) when its name starts with an
\* upper-case letter.
IsExported(name) == Len(name) > 0 /\ IsUpper(name[1])

\* ------------------------------------------------------------------- state
\* One call of snakeCasedName: its argument, its position and its result.
VARIABLES sn_name, sn_pc, sn_out

snVars == <<sn_name, sn_pc, sn_out>>

\* One call of NullValue: its argument, its position and how it ended.
VARIABLES nv_value, nv_pc, nv_out

nvVars == <<nv_value, nv_pc, nv_out>>

\* The field-info cache and its lock, and each caller's position and locals.
VARIABLES finfos, finfoLock, pc, op, typ, finfo, ok, out

cacheVars == <<finfos, finfoLock, pc, op, typ, finfo, ok, out>>

\* One call of Scan: its dest argument, the record dest points to (elem) and
\* what it held at the call (pre), the row source and the calls made to it,
\* the scan targets, the nullable wrappers and how the call ended.
VARIABLES dest, elem, pre, rows, rowsLog, values, nullableFields, result

scanVars == <<dest, elem, pre, rows, rowsLog, values, nullableFields, result>>

snIdle == sn_name = <<>> /\ sn_pc = "idle" /\ sn_out = <<>>

nvIdle == nv_value = <<>> /\ nv_pc = "idle" /\ nv_out = <<>>

Procs == 1..NumProcs

cacheIdle ==
  /\ finfos = <<>>
  /\ finfoLock = [readers |-> {}, writer |-> {}]
  /\ pc = [p \in Procs |-> "idle"]
  /\ op = [p \in Procs |-> "none"]
  /\ typ = [p \in Procs |-> <<>>]
  /\ finfo = [p \in Procs |-> <<>>]
  /\ ok = [p \in Procs |-> FALSE]
  /\ out = [p \in Procs |-> <<>>]

scanIdle ==
  /\ dest = [shape |-> "none", typ |-> <<>>]
  /\ elem = <<>>
  /\ pre = <<>>
  /\ rows = <<>>
  /\ rowsLog = <<>>
  /\ values = <<>>
  /\ nullableFields = <<>>
  /\ result = [how |-> "running", err |-> "nil"]

vars == <<snVars, nvVars, cacheVars, scanVars>>

\* ------------------------------------------------- snakeCasedName, applied
\* Go identifiers over the alphabet (no digits here, so every non-empty
\* sequence is one).
Names == SeqsUpTo(NameAlphabet, MaxNameLen) \ {<<>>}

SnakeInit == sn_name \in Names /\ sn_pc = "call" /\ sn_out = <<>> /\ nvIdle /\ cacheIdle /\ scanIdle

SnakeCall ==
  /\ sn_pc = "call"
  /\ sn_out' = snakeCasedName(sn_name)
  /\ sn_pc' = "done"
  /\ UNCHANGED <<sn_name, nvVars, cacheVars, scanVars>>

SnakeNext == SnakeCall

SpecSnake == SnakeInit /\ [][SnakeNext]_vars

\* The description of the derived name: an underscore before every upper-case
\* letter that is not the first character, all letters lower-cased.
RECURSIVE DescribedSnake(_, _)
DescribedSnake(name, i) ==
  IF i > Len(name) THEN <<>>
  ELSE (IF IsUpper(name[i]) /\ i > 1 THEN <<95>> ELSE <<>>)
         \o <<ToLowerRune(name[i])>> \o DescribedSnake(name, i + 1)

CountIn(s, P(_)) == Cardinality({i \in 1..Len(s) : P(s[i])})

IsUnderscore(chr) == chr = 95

\* C10: for every member name without an override tag (an exported name), the
\* derived external name is the name with an underscore before every
\* upper-case letter that is not the first character and all letters
\* lower-cased: no upper-case letter is left, and the underscores added are as
\* many as the upper-case letters at positions other than the first.
C10_SnakeAsDescribed ==
  (sn_pc = "done" /\ IsExported(sn_name)) =>
     /\ sn_out = DescribedSnake(sn_name, 1)
     /\ \A i \in 1..Len(sn_out) : ~IsUpper(sn_out[i])
     /\ CountIn(sn_out, IsUnderscore) - CountIn(sn_name, IsUnderscore)
          = Cardinality({i \in 2..Len(sn_name) : IsUpper(sn_name[i])})

\* ------------------------------------------------------ NullValue, applied
\* reflect.Kind of a value.
SignedKinds == {"int", "int8", "int16", "int32", "int64"}

UnsignedKinds == {"uint", "uint8", "uint16", "uint32", "uint64"}

IntKinds == SignedKinds \cup UnsignedKinds

FloatKinds == {"float32", "float64"}

\* "\t", " " and "x"
StrAlphabet == {9, 32, 120}

\* unicode.IsSpace on the alphabet used for values.
IsSpace(chr) == chr \in {9, 10, 11, 12, 13, 32, 133, 160}

\* strings.TrimSpace: the string without its leading and trailing white space.
RECURSIVE TrimLeft(_)
TrimLeft(s) == IF s # <<>> /\ IsSpace(Head(s)) THEN TrimLeft(Tail(s)) ELSE s

RECURSIVE TrimRight(_)
TrimRight(s) ==
  IF s # <<>> /\ IsSpace(s[Len(s)]) THEN TrimRight(SubSeq(s, 1, Len(s) - 1)) ELSE s

TrimSpace(s) == TrimRight(TrimLeft(s))

\* The values handed to NullValue: a kind and a value of that kind (a float is
\* one of the whole numbers, a string a sequence of code points).
ValuesOfKind(k) ==
  IF k \in SignedKinds THEN -MaxInt..MaxInt
  ELSE IF k \in UnsignedKinds THEN 0..MaxInt
  ELSE IF k \in FloatKinds THEN -MaxInt..MaxInt
  ELSE IF k = "string" THEN SeqsUpTo(StrAlphabet, MaxStrLen)
  ELSE IF k = "bool" THEN BOOLEAN
  ELSE {<<>>}

ArgKinds == IntKinds \cup FloatKinds \cup {"string", "bool", "slice"}

Args == UNION {[kind : {k}, val : ValuesOfKind(k)] : k \in ArgKinds}

\* The "no value" markers: sql.NullInt64{0, false}, sql.NullFloat64{0, false},
\* sql.NullString{"", false}.
NullMarker(k) == [kind |-> k, val |-> "invalid"]

Returned(v) == [panic |-> FALSE, ret |-> v]

\* reflect.Value.Int panics on a value of an unsigned kind.
Panicked == [panic |-> TRUE, ret |-> <<>>]

NullValue(value) ==
  IF value.kind \in IntKinds
  THEN IF value.kind \notin SignedKinds THEN Panicked
       ELSE IF value.val = 0 THEN Returned(NullMarker("sql.NullInt64"))
       ELSE Returned(value)
  ELSE IF value.kind \in FloatKinds
  THEN IF value.val = 0 THEN Returned(NullMarker("sql.NullFloat64"))
       ELSE Returned(value)
  ELSE IF value.kind = "string"
  THEN IF TrimSpace(value.val) = <<>> THEN Returned(NullMarker("sql.NullString"))
       ELSE Returned(value)
  ELSE Returned(value)

NullInit == nv_value \in Args /\ nv_pc = "call" /\ nv_out = <<>> /\ snIdle /\ cacheIdle /\ scanIdle

NullCall ==
  /\ nv_pc = "call"
  /\ nv_out' = NullValue(nv_value)
  /\ nv_pc' = "done"
  /\ UNCHANGED <<nv_value, snVars, cacheVars, scanVars>>

NullNext == NullCall

SpecNull == NullInit /\ [][NullNext]_vars

IsMarker(v) == v.kind \in {"sql.NullInt64", "sql.NullFloat64", "sql.NullString"}

\* The zero of a kind: numeric zero, or a string that is empty once trimmed.
IsZeroArg(v) ==
  IF v.kind = "string" THEN \A i \in 1..Len(v.val) : IsSpace(v.val[i])
  ELSE v.val = 0

\* C6: for every value of integer kind (any width, signed or unsigned),
\* floating kind or string kind NullValue returns normally, with the "no
\* value" marker exactly when the value is its kind's zero and with the value
\* unchanged otherwise; a value of any other kind is returned unchanged.
C6_NullValueAsDescribed ==
  nv_pc = "done" =>
    /\ ~nv_out.panic
    /\ IF nv_value.kind \in IntKinds \cup FloatKinds \cup {"string"}
       THEN IF IsZeroArg(nv_value) THEN IsMarker(nv_out.ret)
            ELSE nv_out.ret = nv_value
       ELSE nv_out.ret = nv_value

\* ------------------------------------------------------------ record types
\* A record type is the sequence of its fields, each with its name, the value
\* of its "sql" tag ("" when it has none), and whether it is embedded.
Field(name, tag, anonymous, kind) ==
  [name |-> name, tag |-> tag, anonymous |-> anonymous, kind |-> kind]

\* The tag "-"
ExcludeTag == <<45>>

\* map[string]int with finfo[tag] = i applied.
MapPut(m, k, v) == [x \in DOMAIN m \cup {k} |-> IF x = k THEN v ELSE m[x]]

\* The loop of getFieldInfo over typ.Field(i), i = from .. NumField()-1.
RECURSIVE fieldLoop(_, _, _)
fieldLoop(t, i, fi) ==
  IF i >= Len(t) THEN fi
  ELSE LET f == t[i + 1]
       IN  IF ~IsExported(f.name) \/ f.tag = ExcludeTag \/ f.anonymous
           THEN fieldLoop(t, i + 1, fi)
           ELSE LET tag == IF f.tag = <<>> THEN snakeCasedName(f.name)
                           ELSE ToLower(f.tag)
                IN  fieldLoop(t, i + 1, MapPut(fi, tag, i))

buildFieldInfo(t) == fieldLoop(t, 0, <<>>)

\* ----------------------------------------------------------- finfoLock
\* sync.RWMutex: RLock waits while a writer holds the lock, Lock waits while
\* anyone holds it.
\* What the steps of getFieldInfo and Columns leave alone.
others == <<snVars, nvVars, scanVars>>

CanRLock(l) == l.writer = {}

\* A Lock that does not wait for the readers to leave.
canLockDespiteReaders(l) == l.writer = {}

CanLock(l) == l.writer = {} /\ l.readers = {}

\* ------------------------------------------------------------ getFieldInfo
RLock(p) ==
  /\ pc[p] = "rlock"
  /\ CanRLock(finfoLock)
  /\ finfoLock' = [finfoLock EXCEPT !.readers = @ \cup {p}]
  /\ pc' = [pc EXCEPT ![p] = "read"]
  /\ UNCHANGED <<finfos, op, typ, finfo, ok, out, others>>

\* finfo, ok := finfos[typ]
ReadCache(p) ==
  /\ pc[p] = "read"
  /\ ok' = [ok EXCEPT ![p] = typ[p] \in DOMAIN finfos]
  /\ finfo' = [finfo EXCEPT ![p] = IF typ[p] \in DOMAIN finfos
                                   THEN finfos[typ[p]] ELSE <<>>]
  /\ pc' = [pc EXCEPT ![p] = "runlock"]
  /\ UNCHANGED <<finfos, finfoLock, op, typ, out, others>>

\* RUnlock, then either the cached description is returned or the fields of
\* the type are walked into a fresh one.
RUnlock(p) ==
  /\ pc[p] = "runlock"
  /\ finfoLock' = [finfoLock EXCEPT !.readers = @ \ {p}]
  /\ IF ok[p]
     THEN /\ pc' = [pc EXCEPT ![p] = "ret"]
          /\ UNCHANGED finfo
     ELSE /\ finfo' = [finfo EXCEPT ![p] = buildFieldInfo(typ[p])]
          /\ pc' = [pc EXCEPT ![p] = "lock"]
  /\ UNCHANGED <<finfos, op, typ, ok, out, others>>

Lock(p) ==
  /\ pc[p] = "lock"
  /\ CanLock(finfoLock)
  /\ finfoLock' = [finfoLock EXCEPT !.writer = {p}]
  /\ pc' = [pc EXCEPT ![p] = "write"]
  /\ UNCHANGED <<finfos, op, typ, finfo, ok, out, others>>

\* finfos[typ] = finfo
WriteCache(p) ==
  /\ pc[p] = "write"
  /\ finfos' = MapPut(finfos, typ[p], finfo[p])
  /\ pc' = [pc EXCEPT ![p] = "unlock"]
  /\ UNCHANGED <<finfoLock, op, typ, finfo, ok, out, others>>

Unlock(p) ==
  /\ pc[p] = "unlock"
  /\ finfoLock' = [finfoLock EXCEPT !.writer = @ \ {p}]
  /\ pc' = [pc EXCEPT ![p] = "ret"]
  /\ UNCHANGED <<finfos, op, typ, finfo, ok, out, others>>

\* ----------------------------------------------------------------- Columns
\* Whether string a sorts before string b: the first differing code point
\* decides, a proper prefix sorts first.
RECURSIVE StrLess(_, _)
StrLess(a, b) ==
  IF b = <<>> THEN FALSE
  ELSE IF a = <<>> THEN TRUE
  ELSE IF Head(a) # Head(b) THEN Head(a) < Head(b)
  ELSE StrLess(Tail(a), Tail(b))

\* One element put in its place in a sorted sequence.
RECURSIVE insertSorted(_, _)
insertSorted(sorted, x) ==
  IF sorted = <<>> THEN <<x>>
  ELSE IF StrLess(x, Head(sorted)) THEN <<x>> \o sorted
  ELSE <<Head(sorted)>> \o insertSorted(Tail(sorted), x)

RECURSIVE sortFrom(_, _)
sortFrom(names, sorted) ==
  IF names = <<>> THEN sorted
  ELSE sortFrom(Tail(names), insertSorted(sorted, Head(names)))

\* The names left in the order the map yielded them.
keepOrder(names) == names

\* sort.Strings(names)
sortStrings(names) == sortFrom(names, <<>>)

\* ", "
Separator == <<44, 32>>

\* strings.Join(names, ", ")
RECURSIVE Join(_)
Join(names) ==
  IF names = <<>> THEN <<>>
  ELSE IF Len(names) = 1 THEN names[1]
  ELSE names[1] \o Separator \o Join(Tail(names))

\* The orders in which ranging over a map can yield its keys.
RECURSIVE Orderings(_)
Orderings(S) ==
  IF S = {} THEN {<<>>}
  ELSE UNION {{<<x>> \o rest : rest \in Orderings(S \ {x})} : x \in S}

\* Columns after getFieldInfo has returned: the keys in the order the map
\* yields them, sorted and joined.
ColumnsReturn(p) ==
  /\ pc[p] = "ret"
  /\ op[p] = "Columns"
  /\ \E names \in Orderings(DOMAIN finfo[p]) :
        out' = [out EXCEPT ![p] = Join(sortStrings(names))]
  /\ pc' = [pc EXCEPT ![p] = "done"]
  /\ UNCHANGED <<finfos, finfoLock, op, typ, finfo, ok, others>>

\* The field declarations the record types handed to Columns are made of:
\* names "AB", "Ab", "b" (unexported) and "É"; no tag, "-", "a_b", "Ab", "é".
ColumnFieldNames == {<<65, 66>>, <<65, 98>>, <<98>>, <<201>>}

ColumnTags == {<<>>, ExcludeTag, <<97, 95, 98>>, <<65, 98>>, <<233>>}

ColumnFields ==
  {Field(n, t, FALSE, "string") : n \in ColumnFieldNames, t \in ColumnTags}
    \cup {Field(n, <<>>, TRUE, "string") : n \in ColumnFieldNames}

\* The field names of a struct type are distinct.
DistinctNames(t) == \A i, j \in 1..Len(t) : i # j => t[i].name # t[j].name

\* testType of the package's tests: FieldA `sql:"field_a"`, FieldB `sql:"-"`,
\* FieldC `sql:"field_C"`, FieldD, FieldE bool, FieldF int.
testType ==
  << Field(<<70, 105, 101, 108, 100, 65>>, <<102, 105, 101, 108, 100, 95, 97>>,
           FALSE, "string"),
     Field(<<70, 105, 101, 108, 100, 66>>, ExcludeTag, FALSE, "string"),
     Field(<<70, 105, 101, 108, 100, 67>>, <<102, 105, 101, 108, 100, 95, 67>>,
           FALSE, "string"),
     Field(<<70, 105, 101, 108, 100, 68>>, <<>>, FALSE, "string"),
     Field(<<70, 105, 101, 108, 100, 69>>, <<>>, FALSE, "bool"),
     Field(<<70, 105, 101, 108, 100, 70>>, <<>>, FALSE, "int") >>

ColumnTypes ==
  {t \in SeqsUpTo(ColumnFields, MaxFields) : DistinctNames(t)} \cup {testType}

\* Two callers of Columns on one record type, the cache empty.
ColumnsCallers == {1, 2}

ColumnsInit ==
  /\ snIdle /\ nvIdle /\ scanIdle
  /\ finfos = <<>>
  /\ finfoLock = [readers |-> {}, writer |-> {}]
  /\ \E t \in ColumnTypes : typ = [p \in Procs |-> t]
  /\ pc = [p \in Procs |-> IF p \in ColumnsCallers THEN "rlock" ELSE "idle"]
  /\ op = [p \in Procs |-> "Columns"]
  /\ finfo = [p \in Procs |-> <<>>]
  /\ ok = [p \in Procs |-> FALSE]
  /\ out = [p \in Procs |-> <<>>]

ColumnsNext ==
  \E p \in Procs :
    \/ RLock(p)
    \/ ReadCache(p)
    \/ RUnlock(p)
    \/ Lock(p)
    \/ WriteCache(p)
    \/ Unlock(p)
    \/ ColumnsReturn(p)

SpecColumns == ColumnsInit /\ [][ColumnsNext]_vars

\* What the text says a record type's description holds: the external names
\* of its eligible members (exported, not tagged "-", not embedded), each the
\* lower-cased override tag if there is one, else the snake-cased name.
Eligible(f) == IsExported(f.name) /\ f.tag # ExcludeTag /\ ~f.anonymous

ExternalName(f) ==
  IF f.tag # <<>> THEN ToLower(f.tag) ELSE snakeCasedName(f.name)

EligibleAt(t) == {i \in 1..Len(t) : Eligible(t[i])}

ExternalNames(t) == {ExternalName(t[i]) : i \in EligibleAt(t)}

Ascending(names) == \A i \in 1..(Len(names) - 1) : StrLess(names[i], names[i + 1])

TestColumnsExpected ==
  <<102, 105, 101, 108, 100, 95, 97, 44, 32, 102, 105, 101, 108, 100, 95, 99,
    44, 32, 102, 105, 101, 108, 100, 95, 100, 44, 32, 102, 105, 101, 108, 100,
    95, 101, 44, 32, 102, 105, 101, 108, 100, 95, 102>>

\* Columns of testType is the string TestColumns expects.
TestColumnsHolds ==
  \A p \in Procs :
    (pc[p] = "done" /\ typ[p] = testType) => out[p] = TestColumnsExpected

\* Equality of external names ignoring letter case.
EqualFold(a, b) == ToLower(a) = ToLower(b)

SetMax(S) == CHOOSE x \in S : \A y \in S : y <= x

\* C8: in every description held by the cache no two names are equal ignoring
\* case, and each name's index is that of the last declared eligible member
\* whose external name equals it ignoring case.
C8_NamesUniqueLastWins ==
  \A t \in DOMAIN finfos :
    LET fi == finfos[t]
    IN  /\ \A a, b \in DOMAIN fi : EqualFold(a, b) => a = b
        /\ \A a \in DOMAIN fi :
              fi[a] = SetMax({i - 1 : i \in {j \in EligibleAt(t) :
                                         EqualFold(ExternalName(t[j]), a)}})

\* ------------------------------------------- concurrent callers of the cache
\* A type whose two members resolve to the same name "a_b".
collidingType ==
  << Field(<<65, 66>>, <<>>, FALSE, "string"),
     Field(<<65, 98>>, <<65, 95, 66>>, FALSE, "string") >>

\* A type with an excluded member and a derived name.
excludingType ==
  << Field(<<65, 98>>, ExcludeTag, FALSE, "string"),
     Field(<<66>>, <<>>, FALSE, "int") >>

CacheTypes == {<<>>, collidingType, excludingType}

\* NumProcs goroutines, each resolving a type of its own choice, the cache
\* empty.
CacheInit ==
  /\ snIdle /\ nvIdle /\ scanIdle
  /\ finfos = <<>>
  /\ finfoLock = [readers |-> {}, writer |-> {}]
  /\ typ \in [Procs -> CacheTypes]
  /\ pc = [p \in Procs |-> "rlock"]
  /\ op = [p \in Procs |-> "Columns"]
  /\ finfo = [p \in Procs |-> <<>>]
  /\ ok = [p \in Procs |-> FALSE]
  /\ out = [p \in Procs |-> <<>>]

CallerStep(p) ==
  \/ RLock(p)
  \/ ReadCache(p)
  \/ RUnlock(p)
  \/ Lock(p)
  \/ WriteCache(p)
  \/ Unlock(p)
  \/ ColumnsReturn(p)

\* The Go scheduler runs every goroutine that can take a step.
SpecCache ==
  CacheInit /\ [][ColumnsNext]_vars /\ \A p \in Procs : WF_vars(CallerStep(p))

\* The map is written only by the holder of the exclusive lock, with no reader
\* inside, and read only by a holder of the read lock, with no writer inside.
LockDiscipline ==
  \A p \in Procs :
    /\ pc[p] = "write" => finfoLock.writer = {p} /\ finfoLock.readers = {}
    /\ pc[p] = "read" => p \in finfoLock.readers /\ finfoLock.writer = {}
    /\ \A q \in Procs : ~(pc[p] = "write" /\ pc[q] = "read")

\* Every entry is the description of its type, and callers that have resolved
\* the same type hold equal descriptions.
EntriesDeterministic ==
  /\ \A t \in DOMAIN finfos :
        /\ DOMAIN finfos[t] = ExternalNames(t)
        /\ \A a \in DOMAIN finfos[t] :
              finfos[t][a] = SetMax({i - 1 : i \in {j \in EligibleAt(t) :
                                                ExternalName(t[j]) = a}})
  /\ \A p, q \in Procs :
        (pc[p] \in {"ret", "done"} /\ pc[q] \in {"ret", "done"} /\ typ[p] = typ[q])
           => finfo[p] = finfo[q]

NeverEvicted ==
  \A t \in DOMAIN finfos : t \in DOMAIN finfos' /\ finfos'[t] = finfos[t]

AllReturned == \A p \in Procs : pc[p] = "done"

\* C7: under any interleaving of the callers the cache is not corrupted: the
\* map is written only under the exclusive lock and read only under a lock,
\* every entry is the description of its type, no entry is ever removed,
\* redundant resolutions of a type return equal descriptions, and every
\* caller returns.
C7_CacheNeverCorrupted ==
  /\ [](LockDiscipline /\ EntriesDeterministic)
  /\ [][NeverEvicted]_vars
  /\ <>[]AllReturned

\* Two callers resolved the same uncached type redundantly and both are back.
C7_Witness ==
  /\ AllReturned
  /\ \E p, q \in Procs : p # q /\ typ[p] = typ[q] /\ ~ok[p] /\ ~ok[q]
                           /\ typ[p] = collidingType

\* -------------------------------------------------------------------- Scan
NoErr == "nil"

Return(err) == [how |-> "return", err |-> err]

Panic == [how |-> "panic", err |-> NoErr]

MemberKinds == IntKinds \cup FloatKinds \cup {"bool", "string", "slice"}

\* The kinds Scan reads through a sql.Null* wrapper.
NullableKinds == IntKinds \cup FloatKinds \cup {"bool", "string"}

\* The zero value of a kind (a nil slice is the empty sequence).
Zero(k) ==
  IF k \in IntKinds \cup FloatKinds THEN 0
  ELSE IF k = "bool" THEN FALSE
  ELSE <<>>

\* A value of the kind that is not its zero: 7, true, "x".
NonZero(k) ==
  IF k \in IntKinds \cup FloatKinds THEN 7
  ELSE IF k = "bool" THEN TRUE
  ELSE <<120>>

\* The decimal text of a whole number.
RECURSIVE Digits(_)
Digits(n) ==
  IF n < 0 THEN <<45>> \o Digits(-n)
  ELSE IF n < 10 THEN <<48 + n>>
  ELSE Digits(n \div 10) \o <<48 + (n % 10)>>

\* reflect.Value.SetInt stores int8(x), int16(x), ... in a field of signed kind
\* (the values of the model fit 32 bits, so the wider kinds keep them).
Narrow(k, x) ==
  IF k = "int8" THEN ((x + 128) % 256) - 128
  ELSE IF k = "int16" THEN ((x + 32768) % 65536) - 32768
  ELSE x

\* The lookup with its ok result ignored: a missing key reads as index 0.
lookupIgnoringOk(fi, name) ==
  [idx |-> IF ToLower(name) \in DOMAIN fi THEN fi[ToLower(name)] ELSE 0, ok |-> TRUE]

\* idx, ok := fieldInfo[strings.ToLower(name)]
lookup(fi, name) ==
  IF ToLower(name) \in DOMAIN fi
  THEN [idx |-> fi[ToLower(name)], ok |-> TRUE]
  ELSE [idx |-> 0, ok |-> FALSE]

\* The scan target chosen for a column that matched field idx of kind k.
target(k, idx) ==
  IF k = "bool" THEN [to |-> "NullBool", idx |-> idx, valid |-> FALSE, val |-> FALSE]
  ELSE IF k \in IntKinds THEN [to |-> "NullInt64", idx |-> idx, valid |-> FALSE, val |-> 0]
  ELSE IF k \in FloatKinds
  THEN [to |-> "NullFloat64", idx |-> idx, valid |-> FALSE, val |-> 0]
  ELSE IF k = "string"
  THEN [to |-> "NullString", idx |-> idx, valid |-> FALSE, val |-> <<>>]
  ELSE [to |-> "field", idx |-> idx, valid |-> FALSE, val |-> <<>>]

RawBytes == [to |-> "RawBytes", idx |-> 0, valid |-> FALSE, val |-> <<>>]

IsWrapper(v) == v.to \in {"NullBool", "NullInt64", "NullFloat64", "NullString"}

\* The loop of Scan over cols from column j on. elem.Field(idx) panics when
\* dest is a nil pointer (elem is then the zero reflect.Value). A nullable
\* field is remembered with the position of its wrapper among the targets.
RECURSIVE targetLoop(_, _, _, _, _)
targetLoop(d, fi, cols, j, acc) ==
  IF j > Len(cols) THEN acc
  ELSE LET found == lookup(fi, cols[j])
       IN  IF ~found.ok
           THEN targetLoop(d, fi, cols, j + 1,
                           [acc EXCEPT !.values = Append(@, RawBytes)])
           ELSE IF d.shape = "nilptr" THEN [acc EXCEPT !.panic = TRUE]
           ELSE LET v == target(d.typ[found.idx + 1].kind, found.idx)
                IN  targetLoop(d, fi, cols, j + 1,
                      [acc EXCEPT
                         !.values = Append(@, v),
                         !.nullable = IF IsWrapper(v)
                                      THEN Append(@, [field |-> found.idx, value |-> j])
                                      ELSE @])

buildTargets(d, fi, cols) ==
  targetLoop(d, fi, cols, 1, [panic |-> FALSE, values |-> <<>>, nullable |-> <<>>])

\* What the row source's fill stores in one target for one cell: nothing
\* observable in a discard target, the value or "not valid" in a wrapper.
fillWrapper(v, cell) ==
  IF ~IsWrapper(v) THEN v
  ELSE IF cell.null
  THEN [v EXCEPT !.valid = FALSE,
                 !.val = IF v.to = "NullBool" THEN FALSE
                         ELSE IF v.to = "NullString" THEN <<>>
                         ELSE 0]
  ELSE [v EXCEPT !.valid = TRUE,
                 !.val = IF v.to = "NullBool" THEN cell.n # 0
                         ELSE IF v.to = "NullString" THEN Digits(cell.n)
                         ELSE cell.n]

\* The record after fill has stored the first k cells: a field handed over by
\* address is written by the row source itself.
RECURSIVE fillFields(_, _, _, _, _)
fillFields(el, vals, cells, j, k) ==
  IF j > k THEN el
  ELSE fillFields(
         IF vals[j].to = "field"
         THEN [el EXCEPT ![vals[j].idx + 1] =
                 IF cells[j].null THEN <<>> ELSE Digits(cells[j].n)]
         ELSE el,
         vals, cells, j + 1, k)

\* An error test that never fires.
neverFailed(err) == FALSE

\* if err != nil
failed(err) == err # NoErr

\* SetInt panics on a field of unsigned kind.
setPanics(k, v) == v.to = "NullInt64" /\ k \notin SignedKinds

\* A copy back that skips the wrappers holding NULL.
setFieldIfValid(k, old, v) ==
  IF ~v.valid THEN old
  ELSE IF v.to = "NullInt64" THEN Narrow(k, v.val)
  ELSE v.val

\* The value a wrapper leaves in its field: its value when valid, the kind's
\* zero when not.
setField(k, old, v) ==
  IF v.to = "NullInt64" THEN Narrow(k, IF v.valid THEN v.val ELSE 0)
  ELSE IF v.valid THEN v.val
  ELSE Zero(k)

\* The loop of Scan over nullableFields from entry j on.
RECURSIVE copyLoop(_, _, _, _, _)
copyLoop(t, el, nfs, vals, j) ==
  IF j > Len(nfs) THEN [panic |-> FALSE, elem |-> el]
  ELSE LET idx == nfs[j].field
           v == vals[nfs[j].value]
           k == t[idx + 1].kind
       IN  IF setPanics(k, v) THEN [panic |-> TRUE, elem |-> el]
           ELSE copyLoop(t, [el EXCEPT ![idx + 1] = setField(k, @, v)], nfs, vals, j + 1)

\* What the steps of Scan leave alone.
pures == <<snVars, nvVars>>

\* Scan up to the call of getFieldInfo: dest must be a pointer to a struct.
ScanEnter(p) ==
  /\ pc[p] = "scan"
  /\ IF dest.shape \in {"struct", "ptrint"}
     THEN /\ result' = Panic
          /\ pc' = [pc EXCEPT ![p] = "done"]
          /\ UNCHANGED typ
     ELSE /\ typ' = [typ EXCEPT ![p] = dest.typ]
          /\ pc' = [pc EXCEPT ![p] = "rlock"]
          /\ UNCHANGED result
  /\ UNCHANGED <<finfos, finfoLock, op, finfo, ok, out, pures,
                 dest, elem, pre, rows, rowsLog, values, nullableFields>>

\* rows.Columns() and the choice of a scan target for every column.
ScanColumns(p) ==
  /\ pc[p] = "ret"
  /\ op[p] = "Scan"
  /\ rowsLog' = Append(rowsLog, "Columns")
  /\ IF failed(rows.colsErr)
     THEN /\ result' = Return(rows.colsErr)
          /\ pc' = [pc EXCEPT ![p] = "done"]
          /\ UNCHANGED <<values, nullableFields>>
     ELSE LET built == buildTargets(dest, finfo[p], rows.cols)
          IN  IF built.panic
              THEN /\ result' = Panic
                   /\ pc' = [pc EXCEPT ![p] = "done"]
                   /\ UNCHANGED <<values, nullableFields>>
              ELSE /\ values' = built.values
                   /\ nullableFields' = built.nullable
                   /\ pc' = [pc EXCEPT ![p] = "fill"]
                   /\ UNCHANGED result
  /\ UNCHANGED <<finfos, finfoLock, op, typ, finfo, ok, out, pures,
                 dest, elem, pre, rows>>

\* rows.Scan(values...): a fill that fails may have stored any number of the
\* leading cells before it did.
ScanFill(p) ==
  /\ pc[p] = "fill"
  /\ rowsLog' = Append(rowsLog, "Scan")
  /\ IF failed(rows.fillErr)
     THEN /\ \E k \in 0..Len(values) :
                elem' = fillFields(elem, values, rows.cells, 1, k)
          /\ result' = Return(rows.fillErr)
          /\ pc' = [pc EXCEPT ![p] = "done"]
          /\ UNCHANGED values
     ELSE /\ elem' = fillFields(elem, values, rows.cells, 1, Len(values))
          /\ values' = [j \in 1..Len(values) |-> fillWrapper(values[j], rows.cells[j])]
          /\ pc' = [pc EXCEPT ![p] = "copy"]
          /\ UNCHANGED result
  /\ UNCHANGED <<finfos, finfoLock, op, typ, finfo, ok, out, pures,
                 dest, pre, rows, nullableFields>>

\* The wrappers copied back into their fields, and return nil.
ScanCopy(p) ==
  /\ pc[p] = "copy"
  /\ LET copied == copyLoop(dest.typ, elem, nullableFields, values, 1)
     IN  /\ elem' = copied.elem
         /\ result' = IF copied.panic THEN Panic ELSE Return(NoErr)
  /\ pc' = [pc EXCEPT ![p] = "done"]
  /\ UNCHANGED <<finfos, finfoLock, op, typ, finfo, ok, out, pures,
                 dest, pre, rows, rowsLog, values, nullableFields>>

\* The record types scanned into: one member "A" of every kind, and two
\* members "A" and "B" where B has no tag, the tag "A" (so that both resolve
\* to "a") or the tag "-".
ScanTypes ==
  {<<Field(<<65>>, <<>>, FALSE, k)>> : k \in MemberKinds}
    \cup {<<Field(<<65>>, <<>>, FALSE, k1), Field(<<66>>, t2, FALSE, k2)>> :
            k1 \in {"int8", "slice"}, t2 \in {<<>>, <<65>>, ExcludeTag},
            k2 \in {"string", "bool"}}

\* Column names "a", "B" and "x".
ColumnNames == {<<97>>, <<66>>, <<120>>}

\* A cell of the row: SQL NULL, or the number 200.
Cells == {[null |-> TRUE, n |-> 0], [null |-> FALSE, n |-> 200]}

Rows ==
  UNION {[cols : [1..n -> ColumnNames], cells : [1..n -> Cells],
          colsErr : {NoErr, "ErrColumns"}, fillErr : {NoErr, "ErrFill"}] :
         n \in 0..MaxCols}

\* dest: a pointer to a record, a nil pointer to a record type, a record
\* passed by value, or a pointer to an int.
Dests ==
  [shape : {"ptr", "nilptr"}, typ : ScanTypes]
    \cup [shape : {"struct", "ptrint"}, typ : {<<>>}]

\* The record dest points to before the call: each member zero or not.
Records(d) ==
  IF d.shape # "ptr" THEN {<<>>}
  ELSE {[i \in 1..Len(d.typ) |->
           IF i \in nz THEN NonZero(d.typ[i].kind) ELSE Zero(d.typ[i].kind)] :
        nz \in SUBSET (1..Len(d.typ))}

Scanner == 1

ScanInit ==
  /\ snIdle /\ nvIdle
  /\ finfos = <<>>
  /\ finfoLock = [readers |-> {}, writer |-> {}]
  /\ pc = [p \in Procs |-> IF p = Scanner THEN "scan" ELSE "idle"]
  /\ op = [p \in Procs |-> "Scan"]
  /\ typ = [p \in Procs |-> <<>>]
  /\ finfo = [p \in Procs |-> <<>>]
  /\ ok = [p \in Procs |-> FALSE]
  /\ out = [p \in Procs |-> <<>>]
  /\ dest \in Dests
  /\ elem \in Records(dest)
  /\ pre = elem
  /\ rows \in Rows
  /\ rowsLog = <<>>
  /\ values = <<>>
  /\ nullableFields = <<>>
  /\ result = [how |-> "running", err |-> NoErr]

ScanNext ==
  \E p \in Procs :
    \/ ScanEnter(p)
    \/ RLock(p)
    \/ ReadCache(p)
    \/ RUnlock(p)
    \/ Lock(p)
    \/ WriteCache(p)
    \/ Unlock(p)
    \/ ScanColumns(p)
    \/ ScanFill(p)
    \/ ScanCopy(p)

SpecScan == ScanInit /\ [][ScanNext]_vars

Done == pc[Scanner] = "done"

Members == 0..(Len(dest.typ) - 1)

KindOf(i) == dest.typ[i + 1].kind

\* Column j of the row is mapped to member i by the description of the type.
Matches(j, i) ==
  LET fi == buildFieldInfo(dest.typ)
      name == ToLower(rows.cols[j])
  IN  name \in DOMAIN fi /\ fi[name] = i

ColumnIndexes == 1..Len(rows.cols)

\* Column j is the last column of the row mapped to member i.
LastMatch(j, i) ==
  Matches(j, i) /\ \A j2 \in ColumnIndexes : (j2 > j) => ~Matches(j2, i)

Succeeded == Done /\ dest.shape = "ptr" /\ result = Return(NoErr)

\* C2 as stated: when Scan succeeds, a member of boolean, integer, floating or
\* string kind that some matching column gives NULL holds its kind's zero.
C2_NullColumnZeroes ==
  Succeeded =>
    \A i \in Members : \A j \in ColumnIndexes :
      (Matches(j, i) /\ KindOf(i) \in NullableKinds /\ rows.cells[j].null)
         => elem[i + 1] = Zero(KindOf(i))

\* C2, amended: when Scan succeeds, a member of boolean, integer, floating or
\* string kind whose last matching column carries NULL holds its kind's zero,
\* whatever it held before the call.
C2_LastNullColumnZeroes ==
  Succeeded =>
    \A i \in Members : \A j \in ColumnIndexes :
      (LastMatch(j, i) /\ KindOf(i) \in NullableKinds /\ rows.cells[j].null)
         => elem[i + 1] = Zero(KindOf(i))

\* A member that was not zero has been zeroed by a NULL column.
C2_Witness ==
  /\ Succeeded
  /\ \E i \in Members : \E j \in ColumnIndexes :
        /\ LastMatch(j, i) /\ rows.cells[j].null
        /\ KindOf(i) \in NullableKinds
        /\ pre[i + 1] # Zero(KindOf(i))
        /\ elem[i + 1] = Zero(KindOf(i))

Unmatched(j) == \A i \in Members : ~Matches(j, i)

\* C3: a column that matches no member causes no error and changes no member,
\* and a member no column matches holds its pre-call value: Scan returns no
\* error but the row source's, a row of unmatched columns only leaves the
\* record as it was, and only members that a column matches may change.
C3_ScanFrame ==
  (Done /\ dest.shape = "ptr") =>
    /\ \A i \in Members :
          (\A j \in ColumnIndexes : ~Matches(j, i)) => elem[i + 1] = pre[i + 1]
    /\ (result.how = "return" /\ result.err # NoErr)
          => result.err \in {rows.colsErr, rows.fillErr}
    /\ ((\A j \in ColumnIndexes : Unmatched(j)) /\ rows.colsErr = NoErr /\ rows.fillErr = NoErr)
          => result = Return(NoErr) /\ elem = pre

\* Scan has succeeded on a row with a column named after an excluded member
\* and a column that matched: the one member changed, the excluded one, which
\* was not zero, did not.
C3_Witness ==
  /\ Succeeded
  /\ Len(dest.typ) = 2
  /\ dest.typ[2].tag = ExcludeTag
  /\ \E j \in ColumnIndexes : ToLower(rows.cols[j]) = snakeCasedName(dest.typ[2].name)
                          /\ Unmatched(j)
  /\ elem[1] # pre[1]
  /\ elem[2] = pre[2] /\ pre[2] # Zero(KindOf(1))

ColumnsFailed == Len(rowsLog) >= 1 /\ rows.colsErr # NoErr

FillFailed == Len(rowsLog) >= 2 /\ rows.fillErr # NoErr

NullableUntouched ==
  dest.shape = "ptr" =>
    \A i \in Members : KindOf(i) \in NullableKinds => elem[i + 1] = pre[i + 1]

\* C4: when the column-name fetch or the fill fails, Scan returns that very
\* error, fill is not called after a failed fetch and at most once otherwise,
\* and every member of boolean, integer, floating or string kind holds its
\* pre-call value.
C4_ErrorsPropagated ==
  /\ Cardinality({n \in 1..Len(rowsLog) : rowsLog[n] = "Scan"}) <= 1
  /\ Done =>
       /\ ColumnsFailed =>
            result = Return(rows.colsErr) /\ rowsLog = <<"Columns">> /\ NullableUntouched
       /\ FillFailed =>
            result = Return(rows.fillErr) /\ rowsLog = <<"Columns", "Scan">>
              /\ NullableUntouched

\* A fill that failed after it had written a member handed over by address,
\* while a nullable member with a matching column kept its value.
C4_Witness ==
  /\ Done /\ FillFailed /\ dest.shape = "ptr"
  /\ result = Return("ErrFill")
  /\ elem # pre
  /\ \E i \in Members : \E j \in ColumnIndexes :
        Matches(j, i) /\ KindOf(i) \in NullableKinds /\ ~rows.cells[j].null

\* C5: a call of Scan with a dest that is not a non-nil pointer to a record
\* ends in a panic, whatever the row source.
C5_BadDestPanics ==
  (Done /\ dest.shape \in {"struct", "ptrint", "nilptr"}) => result = Panic

\* What a 64-bit integer becomes in a member of integer kind.
Converted(k, x) ==
  IF k \in SignedKinds THEN Narrow(k, x)
  ELSE IF k = "uint8" THEN x % 256
  ELSE IF k = "uint16" THEN x % 65536
  ELSE x

\* C9: when fill succeeds and the column matched to a member of integer kind,
\* signed or unsigned, of any width, carries an integer, Scan returns nil and
\* the member holds that integer converted to its width; Scan does not panic.
C9_IntegerMembersFilled ==
  (Done /\ dest.shape = "ptr" /\ rowsLog = <<"Columns", "Scan">>
        /\ rows.fillErr = NoErr) =>
    \A i \in Members : \A j \in ColumnIndexes :
      (LastMatch(j, i) /\ KindOf(i) \in IntKinds /\ ~rows.cells[j].null)
         => /\ result = Return(NoErr)
            /\ elem[i + 1] = Converted(KindOf(i), rows.cells[j].n)

====
